---- MODULE Spec2Model ----
(***************************************************************************)
(* The Lorenz trajectory integration code of the repository:               *)
(*   src/lorenz_dash.py            LorenzSimulator (incremental, bounded), *)
(*                                 the dashboard's callbacks and its       *)
(*                                 export thread                           *)
(*   src/lorenz_manim/lorenz_scene.py  lorenz_derivatives, rk4_step,       *)
(*                                     generate_trajectory (batch, RK4)    *)
(*   src/export_video.py           lorenz_derivatives, generate_trajectory *)
(*   src/lorenz_turbulence.py      lorenz_system, simulate_lorenz (Euler)  *)
(*                                                                         *)
(* Numbers.  The code computes in IEEE doubles.  The model computes on the *)
(* grid of multiples of 1/Scale: a number v of the program is the integer  *)
(* v*Scale, addition and subtraction are exact, and every product and      *)
(* quotient is rounded to the nearest grid point, once per operation and   *)
(* in the order the Python expression evaluates them.                      *)
(*                                                                         *)
(* Time stamps.  step() accumulates current_t += self.dt, and a double     *)
(* rounds every such sum to 53 significant bits, so that the sum of n      *)
(* copies of dt and the product n * dt are two different numbers for most  *)
(* n (for dt = 0.01 from n = 6 on).  The grid cannot show this, so the     *)
(* time stamps alone are kept as floating-point numbers on the grid: every *)
(* sum of time stamps is rounded to Precision significant bits, halves to  *)
(* even, by Fl.  The coordinates stay on the grid, where their sums are    *)
(* exact.                                                                  *)
(*                                                                         *)
(* History bound.  LorenzSimulator.step keeps max_points = 10000 entries   *)
(* (src/lorenz_dash.py:88).  The model keeps the code's eviction rule and  *)
(* scales the number down to max_points below, so that eviction happens    *)
(* within a few sub-steps; no definition depends on its value other than   *)
(* through the comparison and the slice of step().                         *)
(***************************************************************************)
EXTENDS Integers, Sequences, FiniteSets, TLC

----------------------------------------------------------------------------
(* Bounds of the model *)

Scale == 1000          \* grid points per unit
max_points == 3        \* stands for max_points = 10000 of step()
MaxTotal == 4          \* sub-steps performed on a handle since its last reset
MaxEps == 1            \* largest epsilon handed to perturb(), in grid points
MaxBatchSteps == 3     \* largest step count handed to a batch generator
MaxLog == 2            \* calls recorded per handle when two handles are compared
Precision == 4         \* significant bits of a time stamp; a double has 53

----------------------------------------------------------------------------
(* Arithmetic on the grid *)

\* a / b for integers a and b > 0, rounded to nearest, halves away from zero
RDiv(a, b) == IF a >= 0 THEN (2 * a + b) \div (2 * b)
                        ELSE -((2 * (-a) + b) \div (2 * b))

Num(n) == n * Scale                 \* the number n
Mul(a, b) == RDiv(a * b, Scale)     \* a * b
Div(a, b) == RDiv(a * Scale, b)     \* a / b, b > 0

Abs(a) == IF a >= 0 THEN a ELSE -a
Max(a, b) == IF a >= b THEN a ELSE b
Min(a, b) == IF a <= b THEN a ELSE b

\* the power of two that two neighbouring floating-point numbers near m > 0
\* are apart: the least s = 1, 2, 4, ... with m < s * 2^Precision
RECURSIVE Spacing(_, _)
Spacing(m, s) == IF m < s * 2^Precision THEN s ELSE Spacing(m, 2 * s)

\* v rounded to Precision significant bits, halves to the even neighbour
Fl(v) ==
  LET m == Abs(v)
      s == Spacing(m, 1)
      q == m \div s
      r == m % s
      up == 2 * r > s \/ (2 * r = s /\ q % 2 = 1)
      mag == (IF up THEN q + 1 ELSE q) * s
  IN  IF v >= 0 THEN mag ELSE -mag

\* Python's s[-n:] for 0 < n
LastN(s, n) == IF Len(s) <= n THEN s ELSE SubSeq(s, Len(s) - n + 1, Len(s))
\* Python's s[-1] of a non-empty list
Last(s) == s[Len(s)]

----------------------------------------------------------------------------
(* State *)

Handles == {1, 2}      \* LorenzSimulator objects; 1 is the module's `simulator`

VARIABLES
  sigma, rho, beta, dt,    \* self.sigma, self.rho, self.beta, self.dt, per handle
  x, y, z, t,              \* self.x, self.y, self.z, self.t (lists), per handle
  s0,                      \* per handle: <<x0, y0, z0>> of its last reset
  nsub,                    \* per handle: sub-steps performed since its last reset
  negsteps,                \* per handle: some step() since then had steps < 0
  calls,                   \* per handle: the calls made on it, in order
  last,                    \* the call made last, what it saw and how it ended
  perturbed,               \* perturb() has been called
  initial,                 \* the array a caller hands to lorenz_scene's functions
  batch,                   \* the latest batch calls (at most two), with results
  is_disabled,             \* the browser's interval-component.disabled
  current_fig,             \* the browser's lorenz-plot.figure: "None" or "figure"
  export_text,             \* the browser's export-status.children
  fired,                   \* the latest update_simulation: its trigger and inputs
  req,                     \* per request thread of the server: the callback it runs
  workers,                 \* the threading.Thread objects created, in order
  export_status,           \* the global export_status
  export_thread,           \* the global export_thread: 0 (None) or an index of workers
  points,                  \* with request threads: every <<x, y, z>> that one
                           \* reset or one sub-step produced
  started                  \* callbacks started so far

simVars == <<sigma, rho, beta, dt, x, y, z, t>>
ghostVars == <<s0, nsub, negsteps, last, perturbed>>
batchVars == <<initial, batch>>
pageVars == <<is_disabled, current_fig, export_text, fired>>
threadVars == <<req, workers, export_status, export_thread, points, started>>
dashVars == <<pageVars, threadVars>>
vars == <<simVars, ghostVars, calls, batchVars, dashVars>>

----------------------------------------------------------------------------
(* Inputs *)

DT_DEFAULT == Div(Num(1), Num(100))          \* dt=0.01
X0_DEFAULT == Div(Num(1), Num(10))           \* x0=0.1
Origin == <<0, 0, 0>>

\* initial conditions handed to the constructor, reset() and the batch generator
InitialStates == {<<X0_DEFAULT, 0, 0>>, Origin, <<Num(1), Num(1), Num(20)>>}
\* step sizes handed to the constructor and the batch generators
StepSizes == {DT_DEFAULT, 0, -DT_DEFAULT}
\* `steps` arguments of step(): negative, zero, small, and more than max_points
StepCounts == {-1, 0, 1, 2, max_points + 1}
Epsilons == 1..MaxEps
BatchSteps == -2..MaxBatchSteps
\* states handed to the batch functions
BatchStates == InitialStates \cup {<<-Num(3), Num(2), Num(30)>>}

----------------------------------------------------------------------------
(* src/lorenz_dash.py: class LorenzSimulator *)

\* _derivatives with dz = x * y - self.beta (the factor z dropped)
_derivatives_beta_only(h, cx, cy, cz) ==
  <<Mul(sigma[h], cy - cx),
    Mul(cx, rho[h] - cz) - cy,
    Mul(cx, cy) - beta[h]>>

\* _derivatives(self, x, y, z)
_derivatives(h, cx, cy, cz) ==
  <<Mul(sigma[h], cy - cx),
    Mul(cx, rho[h] - cz) - cy,
    Mul(cx, cy) - Mul(beta[h], cz)>>

\* step_body with k4 taken at the half step, as k2 and k3 are
step_body_k4_half(h, c) ==
  LET k1 == _derivatives(h, c[1], c[2], c[3])
      half == Mul(Div(Num(1), Num(2)), dt[h])
      k2 == _derivatives(h, c[1] + Mul(half, k1[1]),
                            c[2] + Mul(half, k1[2]),
                            c[3] + Mul(half, k1[3]))
      k3 == _derivatives(h, c[1] + Mul(half, k2[1]),
                            c[2] + Mul(half, k2[2]),
                            c[3] + Mul(half, k2[3]))
      k4 == _derivatives(h, c[1] + Mul(half, k3[1]),
                            c[2] + Mul(half, k3[2]),
                            c[3] + Mul(half, k3[3]))
      sixth == Div(dt[h], Num(6))
      sum(i) == k1[i] + Mul(Num(2), k2[i]) + Mul(Num(2), k3[i]) + k4[i]
  IN  <<c[1] + Mul(sixth, sum(1)),
        c[2] + Mul(sixth, sum(2)),
        c[3] + Mul(sixth, sum(3)),
        Fl(c[4] + dt[h])>>

\* one pass of the body of the for loop of step(): c is
\* <<current_x, current_y, current_z, current_t>> before, the result is after
step_body(h, c) ==
  LET k1 == _derivatives(h, c[1], c[2], c[3])
      half == Mul(Div(Num(1), Num(2)), dt[h])
      k2 == _derivatives(h, c[1] + Mul(half, k1[1]),
                            c[2] + Mul(half, k1[2]),
                            c[3] + Mul(half, k1[3]))
      k3 == _derivatives(h, c[1] + Mul(half, k2[1]),
                            c[2] + Mul(half, k2[2]),
                            c[3] + Mul(half, k2[3]))
      k4 == _derivatives(h, c[1] + Mul(dt[h], k3[1]),
                            c[2] + Mul(dt[h], k3[2]),
                            c[3] + Mul(dt[h], k3[3]))
      sixth == Div(dt[h], Num(6))
      sum(i) == k1[i] + Mul(Num(2), k2[i]) + Mul(Num(2), k3[i]) + k4[i]
  IN  <<c[1] + Mul(sixth, sum(1)),
        c[2] + Mul(sixth, sum(2)),
        c[3] + Mul(sixth, sum(3)),
        Fl(c[4] + dt[h])>>

\* the for loop of step(): i passes left, lists = <<self.x, self.y, self.z, self.t>>
RECURSIVE step_loop(_, _, _, _)
step_loop(h, lists, c, i) ==
  IF i <= 0 THEN lists
  ELSE LET n == step_body(h, c)
       IN  step_loop(h, [j \in 1..4 |-> Append(lists[j], n[j])], n, i - 1)

\* decimate with the slice [:max_points], which keeps the oldest entries
decimate_head(lists) ==
  IF Len(lists[1]) > max_points
  THEN [j \in 1..4 |-> SubSeq(lists[j], 1, max_points)]
  ELSE lists

\* decimate that slices self.x, self.y and self.z and leaves self.t as it is
decimate_without_t(lists) ==
  IF Len(lists[1]) > max_points
  THEN [j \in 1..4 |-> IF j = 4 THEN lists[j] ELSE LastN(lists[j], max_points)]
  ELSE lists

\* decimate that keeps the oldest entry in front of the newest ones
decimate_keep_initial(lists) ==
  IF Len(lists[1]) > max_points
  THEN [j \in 1..4 |-> <<lists[j][1]>> \o LastN(lists[j], max_points - 1)]
  ELSE lists

\* the decimation at the end of step()
decimate(lists) ==
  IF Len(lists[1]) > max_points
  THEN [j \in 1..4 |-> LastN(lists[j], max_points)]
  ELSE lists

\* step with current_* read from index 0 instead of index -1
step_from_first(h, steps) ==
  LET current == <<x[h][1], y[h][1], z[h][1], t[h][1]>>
  IN  decimate(step_loop(h, <<x[h], y[h], z[h], t[h]>>, current, steps))

\* step(self, steps): the lists of the handle when it returns
step(h, steps) ==
  LET current == <<Last(x[h]), Last(y[h]), Last(z[h]), Last(t[h])>>
  IN  decimate(step_loop(h, <<x[h], y[h], z[h], t[h]>>, current, steps))

\* reset with self.y and self.z exchanged
reset_swapped(x0, y0, z0) == <<(<<x0>>), (<<z0>>), (<<y0>>), (<<0>>)>>

\* reset(self, x0, y0, z0): the lists of the handle when it returns
reset(x0, y0, z0) == <<(<<x0>>), (<<y0>>), (<<z0>>), (<<0>>)>>

\* the guard `if not self.x` at the top of perturb()
EmptyHistory(h) == Len(x[h]) = 0

\* perturb with the offsets added to index 0 instead of index -1
perturb_from_first(h, d) ==
  IF Len(x[h]) = 0 THEN <<x[h], y[h], z[h], t[h]>>
  ELSE reset(x[h][1] + d[1], y[h][1] + d[2], z[h][1] + d[3])

\* perturb(self, epsilon) with the three draws d of np.random.uniform
perturb(h, d) ==
  IF Len(x[h]) = 0 THEN <<x[h], y[h], z[h], t[h]>>
  ELSE reset(Last(x[h]) + d[1], Last(y[h]) + d[2], Last(z[h]) + d[3])

\* np.random.uniform(-epsilon, epsilon): every grid point of the interval
uniform(epsilon) == (-epsilon)..epsilon

SetLists(h, lists) ==
  /\ x' = [x EXCEPT ![h] = lists[1]]
  /\ y' = [y EXCEPT ![h] = lists[2]]
  /\ z' = [z EXCEPT ![h] = lists[3]]
  /\ t' = [t EXCEPT ![h] = lists[4]]

LastPoint(h) == <<Last(x[h]), Last(y[h]), Last(z[h]), Last(t[h])>>

\* the record of a call: single = it is a step() made right after a reset,
\* pre = the last retained point a perturb() found
Call(op, h, args, single, pre, outcome) ==
  [op |-> op, h |-> h, args |-> args, single |-> single, pre |-> pre,
   outcome |-> outcome]

\* simulator.step(steps=k)
Step(h, k) ==
  /\ SetLists(h, step(h, k))
  /\ nsub' = [nsub EXCEPT ![h] = @ + Max(k, 0)]
  /\ negsteps' = [negsteps EXCEPT ![h] = @ \/ k < 0]
  /\ last' = Call("step", h, <<k>>, last.h = h /\ last.op # "step", <<>>, "returned")
  /\ UNCHANGED <<sigma, rho, beta, dt, s0, perturbed, batchVars>>

\* reset that runs the constructor again, which puts dt back to its default
Reset_reinit(h, p) ==
  /\ SetLists(h, reset(p[1], p[2], p[3]))
  /\ s0' = [s0 EXCEPT ![h] = p]
  /\ nsub' = [nsub EXCEPT ![h] = 0]
  /\ negsteps' = [negsteps EXCEPT ![h] = FALSE]
  /\ last' = Call("reset", h, p, FALSE, <<>>, "returned")
  /\ dt' = [dt EXCEPT ![h] = DT_DEFAULT]
  /\ UNCHANGED <<sigma, rho, beta, perturbed, batchVars>>

\* simulator.reset(x0, y0, z0)
Reset(h, p) ==
  /\ SetLists(h, reset(p[1], p[2], p[3]))
  /\ s0' = [s0 EXCEPT ![h] = p]
  /\ nsub' = [nsub EXCEPT ![h] = 0]
  /\ negsteps' = [negsteps EXCEPT ![h] = FALSE]
  /\ last' = Call("reset", h, p, FALSE, <<>>, "returned")
  /\ UNCHANGED <<sigma, rho, beta, dt, perturbed, batchVars>>

\* simulator.perturb(epsilon), the generator drawing d
Perturb(h, epsilon, d) ==
  LET lists == perturb(h, d)
  IN  /\ SetLists(h, lists)
      /\ s0' = [s0 EXCEPT ![h] = <<Last(lists[1]), Last(lists[2]), Last(lists[3])>>]
      /\ nsub' = [nsub EXCEPT ![h] = 0]
      /\ negsteps' = [negsteps EXCEPT ![h] = FALSE]
      /\ last' = Call("perturb", h, <<epsilon>>, FALSE, LastPoint(h), "returned")
      /\ perturbed' = TRUE
      /\ UNCHANGED <<sigma, rho, beta, dt, batchVars>>

\* LorenzSimulator(x0, y0, z0, dt=d) with the default sigma, rho, beta
Construct(p, d) ==
  [sigma |-> Num(10), rho |-> Num(28), beta |-> Div(Num(8), Num(3)), dt |-> d,
   lists |-> reset(p[1], p[2], p[3])]

----------------------------------------------------------------------------
(* numpy: element-wise arithmetic of arrays of three numbers *)

VAdd(a, b) == [i \in 1..3 |-> a[i] + b[i]]       \* a + b
VScale(c, a) == [i \in 1..3 |-> Mul(c, a[i])]    \* c * a, c a number

\* what a call of a batch function gives back: it returns value, or it raises
Returned(value) == [outcome |-> "returned", value |-> value]
Raised(error) == [outcome |-> "raised", value |-> error]

----------------------------------------------------------------------------
(* src/lorenz_manim/lorenz_scene.py *)

SIGMA == Num(10)
RHO == Num(28)
BETA == Div(Num(8), Num(3))

\* lorenz_derivatives(state)
lorenz_derivatives(state) ==
  <<Mul(SIGMA, state[2] - state[1]),
    Mul(state[1], RHO - state[3]) - state[2],
    Mul(state[1], state[2]) - Mul(BETA, state[3])>>

\* rk4_step(state, dt)
rk4_step(state, d) ==
  LET half == Mul(Div(Num(1), Num(2)), d)
      k1 == lorenz_derivatives(state)
      k2 == lorenz_derivatives(VAdd(state, VScale(half, k1)))
      k3 == lorenz_derivatives(VAdd(state, VScale(half, k2)))
      k4 == lorenz_derivatives(VAdd(state, VScale(d, k3)))
  IN  VAdd(state,
           VScale(Div(d, Num(6)),
                  VAdd(VAdd(VAdd(k1, VScale(Num(2), k2)), VScale(Num(2), k3)), k4)))

\* the for loop of generate_trajectory, i passes left
RECURSIVE generate_loop(_, _, _, _)
generate_loop(trajectory, state, d, i) ==
  IF i <= 0 THEN trajectory
  ELSE LET n == rk4_step(state, d)
       IN  generate_loop(Append(trajectory, n), n, d, i - 1)

\* generate_trajectory(initial, dt, steps): it returns the array of these rows
generate_trajectory(init, d, steps) == Returned(generate_loop(<<init>>, init, d, steps))

\* generate_trajectory integrating in the caller's array (no copy, state
\* updated in place): the array ends up holding the last state
initial_after_in_place(init, d, steps) == Last(generate_loop(<<init>>, init, d, steps))

\* what the caller's array `initial` holds when generate_trajectory returns:
\* the function works on initial.copy() and rk4_step builds new arrays
initial_after(init, d, steps) == init

----------------------------------------------------------------------------
(* src/export_video.py *)

\* lorenz_derivatives with dy = x * (rho - z) + y
export_video_lorenz_derivatives_plus_y(cx, cy, cz) ==
  LET sig == Num(10)
      rh == Num(28)
      bet == Div(Num(8), Num(3))
  IN  <<Mul(sig, cy - cx), Mul(cx, rh - cz) + cy, Mul(cx, cy) - Mul(bet, cz)>>

\* lorenz_derivatives(x, y, z, sigma=10, rho=28, beta=8/3)
export_video_lorenz_derivatives(cx, cy, cz) ==
  LET sig == Num(10)
      rh == Num(28)
      bet == Div(Num(8), Num(3))
  IN  <<Mul(sig, cy - cx), Mul(cx, rh - cz) - cy, Mul(cx, cy) - Mul(bet, cz)>>

\* the value the body of the for loop stores at index i+1, from the one at i
export_video_body(c, d) ==
  LET half == Mul(Div(Num(1), Num(2)), d)
      k1 == export_video_lorenz_derivatives(c[1], c[2], c[3])
      k2 == export_video_lorenz_derivatives(c[1] + Mul(half, k1[1]),
                                            c[2] + Mul(half, k1[2]),
                                            c[3] + Mul(half, k1[3]))
      k3 == export_video_lorenz_derivatives(c[1] + Mul(half, k2[1]),
                                            c[2] + Mul(half, k2[2]),
                                            c[3] + Mul(half, k2[3]))
      k4 == export_video_lorenz_derivatives(c[1] + Mul(d, k3[1]),
                                            c[2] + Mul(d, k3[2]),
                                            c[3] + Mul(d, k3[3]))
      sixth == Div(d, Num(6))
      sum(i) == k1[i] + Mul(Num(2), k2[i]) + Mul(Num(2), k3[i]) + k4[i]
  IN  <<c[1] + Mul(sixth, sum(1)), c[2] + Mul(sixth, sum(2)), c[3] + Mul(sixth, sum(3))>>

\* the for loop over range(steps - 1): rows = the entries filled so far
RECURSIVE export_video_loop(_, _, _)
export_video_loop(rows, d, i) ==
  IF i <= 0 THEN rows
  ELSE export_video_loop(Append(rows, export_video_body(Last(rows), d)), d, i - 1)

\* the tuple (xs, ys, zs) of a sequence of rows
Columns(rows) == [j \in 1..3 |-> [i \in 1..Len(rows) |-> rows[i][j]]]

\* xs[0], ys[0], zs[0] = (0.1, 0.0, 0.0)
export_video_start == <<Div(Num(1), Num(10)), 0, 0>>

\* generate_trajectory(dt, steps): np.empty(steps) raises for steps < 0,
\* xs[0] = ... raises on the empty array for steps = 0
export_video_generate_trajectory(d, steps) ==
  IF steps < 0 THEN Raised("ValueError")
  ELSE IF steps = 0 THEN Raised("IndexError")
  ELSE Returned(Columns(export_video_loop(<<export_video_start>>, d, steps - 1)))

----------------------------------------------------------------------------
(* src/lorenz_turbulence.py *)

\* lorenz_system(x, y, z, sigma=10, rho=28, beta=8/3)
lorenz_system(cx, cy, cz) ==
  LET sig == Num(10)
      rh == Num(28)
      bet == Div(Num(8), Num(3))
  IN  <<Mul(sig, cy - cx), Mul(cx, rh - cz) - cy, Mul(cx, cy) - Mul(bet, cz)>>

\* the for loop over range(num_steps): explicit Euler
RECURSIVE simulate_loop(_, _, _)
simulate_loop(rows, d, i) ==
  IF i <= 0 THEN rows
  ELSE LET c == Last(rows)
           dd == lorenz_system(c[1], c[2], c[3])
       IN  simulate_loop(Append(rows, <<c[1] + Mul(dd[1], d),
                                        c[2] + Mul(dd[2], d),
                                        c[3] + Mul(dd[3], d)>>), d, i - 1)

\* xs[0], ys[0], zs[0] = (0.0, 1.0, 1.05)
simulate_start == <<0, Num(1), Div(Num(105), Num(100))>>

\* simulate_lorenz(dt, num_steps): np.empty(num_steps + 1) raises for a negative
\* size, xs[0] = ... raises on the empty array
simulate_lorenz(d, num_steps) ==
  IF num_steps + 1 < 0 THEN Raised("ValueError")
  ELSE IF num_steps + 1 = 0 THEN Raised("IndexError")
  ELSE Returned(Columns(simulate_loop(<<simulate_start>>, d, num_steps)))

----------------------------------------------------------------------------
(* The simulator driven by its callers, one call at a time *)

Default == Construct(<<X0_DEFAULT, 0, 0>>, DT_DEFAULT)     \* LorenzSimulator()

\* the page as app.layout builds it: the interval disabled, no figure yet
InitPage ==
  /\ is_disabled = TRUE
  /\ current_fig = "None"
  /\ export_text = ""
  /\ fired = [trigger |-> "none", inputs |-> <<>>]

Requests == {1, 2}     \* request threads of the server (app.run is threaded)

\* a request thread that runs no callback
Idle ==
  [pc |-> "idle", op |-> "none", j |-> 0, left |-> 0, cur |-> <<>>, args |-> <<>>,
   d |-> <<>>, data |-> <<>>]

\* the module's globals, and a server that has not been asked anything
InitThreads ==
  /\ req = [r \in Requests |-> Idle]
  /\ workers = <<>>
  /\ export_status = "Idle"
  /\ export_thread = 0
  /\ started = 0

\* the same where callbacks run one at a time, each to its end
NoThreads == InitThreads /\ points = {}

\* the page after its first update_simulation, with the interval running
RunningPage ==
  /\ is_disabled = FALSE
  /\ current_fig = "figure"
  /\ export_text = "Idle"
  /\ fired = [trigger |-> "btn-run", inputs |-> <<>>]

\* handle 1 is constructed with the arguments (p, d); handle 2 with the defaults
InitSim(c1, c2) ==
  LET c == [h \in Handles |-> IF h = 1 THEN c1 ELSE c2]
  IN  /\ sigma = [h \in Handles |-> c[h].sigma]
      /\ rho = [h \in Handles |-> c[h].rho]
      /\ beta = [h \in Handles |-> c[h].beta]
      /\ dt = [h \in Handles |-> c[h].dt]
      /\ x = [h \in Handles |-> c[h].lists[1]]
      /\ y = [h \in Handles |-> c[h].lists[2]]
      /\ z = [h \in Handles |-> c[h].lists[3]]
      /\ t = [h \in Handles |-> c[h].lists[4]]
      /\ s0 = [h \in Handles |-> <<c[h].lists[1][1], c[h].lists[2][1], c[h].lists[3][1]>>]
      /\ nsub = [h \in Handles |-> 0]
      /\ negsteps = [h \in Handles |-> FALSE]
      /\ last = [op |-> "init", h |-> 1, args |-> <<c1.dt>>, single |-> FALSE,
                 pre |-> <<>>, outcome |-> "returned"]
      /\ perturbed = FALSE

NoBatch ==
  /\ initial = <<X0_DEFAULT, 0, 0>>
  /\ batch = <<>>

Init ==
  /\ \E p \in InitialStates, d \in StepSizes : InitSim(Construct(p, d), Default)
  /\ calls = [h \in Handles |-> <<>>]
  /\ NoBatch
  /\ InitPage
  /\ NoThreads

SimStep ==
  \E k \in StepCounts :
    /\ nsub[1] + Max(k, 0) <= MaxTotal
    /\ Step(1, k)
    /\ UNCHANGED <<calls, dashVars>>

SimReset ==
  \E p \in InitialStates :
    /\ Reset(1, p)
    /\ UNCHANGED <<calls, dashVars>>

\* the dashboard's simulator.perturb(epsilon).  The draws make this the widest
\* branching of the model, and a behaviour holds one perturb(): the handle it
\* leaves is a handle after reset(), which SimReset and SimStep carry on from.
SimPerturb ==
  \E e \in Epsilons : \E d \in uniform(e) \X uniform(e) \X uniform(e) :
    /\ ~perturbed
    /\ Perturb(1, e, d)
    /\ UNCHANGED <<calls, dashVars>>

Next == SimStep \/ SimReset \/ SimPerturb

Spec == Init /\ [][Next]_vars

----------------------------------------------------------------------------
(* The batch functions called by a script, one call at a time.  `initial` is *)
(* the array the script holds; batch keeps the latest two calls made since   *)
(* the script built that array.                                              *)

Entry(fn, arg, d, steps, result, after) ==
  [fn |-> fn, arg |-> arg, dt |-> d, steps |-> steps, result |-> result,
   after |-> after]

Push(log, e) == IF Len(log) < 2 THEN Append(log, e) ELSE <<log[2], e>>

\* initial = np.array([...])
NewInitial ==
  \E p \in BatchStates :
    /\ initial' = p
    /\ batch' = <<>>
    /\ UNCHANGED <<simVars, ghostVars, calls, dashVars>>

\* lorenz_scene.generate_trajectory(initial, dt, steps)
Generate(d, n) ==
  /\ batch' = Push(batch, Entry("lorenz_scene.generate_trajectory", initial, d, n,
                                generate_trajectory(initial, d, n),
                                initial_after(initial, d, n)))
  /\ initial' = initial_after(initial, d, n)
  /\ UNCHANGED <<simVars, ghostVars, calls, dashVars>>

SceneGenerate == \E d \in StepSizes, n \in BatchSteps : Generate(d, n)

\* export_video.generate_trajectory(dt, steps)
ExportGenerate ==
  \E d \in StepSizes, n \in BatchSteps :
    /\ batch' = Push(batch, Entry("export_video.generate_trajectory", <<>>, d, n,
                                  export_video_generate_trajectory(d, n), <<>>))
    /\ UNCHANGED <<initial, simVars, ghostVars, calls, dashVars>>

\* lorenz_turbulence.simulate_lorenz(dt, num_steps)
TurbulenceSimulate ==
  \E d \in StepSizes, n \in BatchSteps :
    /\ batch' = Push(batch, Entry("lorenz_turbulence.simulate_lorenz", <<>>, d, n,
                                  simulate_lorenz(d, n), <<>>))
    /\ UNCHANGED <<initial, simVars, ghostVars, calls, dashVars>>

\* lorenz_scene.lorenz_derivatives(initial)
SceneDerivatives ==
  /\ batch' = Push(batch, Entry("lorenz_scene.lorenz_derivatives", initial, 0, 0,
                                Returned(lorenz_derivatives(initial)), initial))
  /\ UNCHANGED <<initial, simVars, ghostVars, calls, dashVars>>

\* export_video.lorenz_derivatives(*initial)
ExportDerivatives ==
  /\ batch' = Push(batch, Entry("export_video.lorenz_derivatives", initial, 0, 0,
                                Returned(export_video_lorenz_derivatives(
                                           initial[1], initial[2], initial[3])),
                                initial))
  /\ UNCHANGED <<initial, simVars, ghostVars, calls, dashVars>>

\* simulator._derivatives(*initial)
DashDerivatives ==
  /\ batch' = Push(batch, Entry("lorenz_dash._derivatives", initial, 0, 0,
                                Returned(_derivatives(1, initial[1], initial[2], initial[3])),
                                initial))
  /\ UNCHANGED <<initial, simVars, ghostVars, calls, dashVars>>

InitBatch ==
  /\ InitSim(Default, Default)
  /\ calls = [h \in Handles |-> <<>>]
  /\ initial \in BatchStates
  /\ batch = <<>>
  /\ InitPage
  /\ NoThreads

NextBatch ==
  \/ NewInitial
  \/ SceneGenerate
  \/ ExportGenerate
  \/ TurbulenceSimulate
  \/ SceneDerivatives
  \/ ExportDerivatives
  \/ DashDerivatives

SpecBatch == InitBatch /\ [][NextBatch]_vars

----------------------------------------------------------------------------
(* Two handles constructed with the same arguments, each driven by its own   *)
(* caller, next to a script that calls generate_trajectory on its array.     *)
(* calls[h] records the calls made on handle h.                              *)

ComparedStepCounts == {1, 2}
ComparedResets == {<<Num(1), Num(1), Num(20)>>}
ComparedBatchSteps == {0, 2}

InitCompared ==
  /\ \E p \in InitialStates, d \in StepSizes :
       /\ InitSim(Construct(p, d), Construct(p, d))
       /\ initial = p
  /\ calls = [h \in Handles |-> <<>>]
  /\ batch = <<>>
  /\ InitPage
  /\ NoThreads

ComparedStep ==
  \E h \in Handles, k \in ComparedStepCounts :
    /\ Len(calls[h]) < MaxLog
    /\ Step(h, k)
    /\ calls' = [calls EXCEPT ![h] = Append(@, <<"step", k>>)]
    /\ UNCHANGED dashVars

ComparedReset ==
  \E h \in Handles, p \in ComparedResets :
    /\ Len(calls[h]) < MaxLog
    /\ Reset(h, p)
    /\ calls' = [calls EXCEPT ![h] = Append(@, <<"reset", p>>)]
    /\ UNCHANGED dashVars

ComparedGenerate == \E n \in ComparedBatchSteps : Generate(dt[1], n)

NextCompared == ComparedStep \/ ComparedReset \/ ComparedGenerate

SpecCompared == InitCompared /\ [][NextCompared]_vars

----------------------------------------------------------------------------
(* src/lorenz_dash.py: the callback update_simulation, one call at a time.   *)
(* The browser holds the figure and the interval's `disabled`; it hands both *)
(* to every call with the values of the three inputs and of the slider, and  *)
(* stores what the call returns.                                             *)

\* the value of an input or slider: None, or the number entered
None == <<>>
Entered(v) == <<v>>

\* Python's `a or b` for a number-or-None a and a number b
Or(a, b) == IF a # None /\ a[1] # 0 THEN a[1] ELSE b

\* 10**v for an integer v <= 0
Pow10(v) == Div(Num(1), Num(10^(-v)))

TICK_STEPS == 5                      \* simulator.step(steps=5)
MaxTicks == 2                        \* interval ticks that step, per reset

\* what a user leaves in input-x0, input-y0, input-z0
DashInputs == {None, Entered(0), Entered(X0_DEFAULT), Entered(Num(1))}
\* the slider's positions whose epsilon is within the model's bound
SliderValues == {v \in -5..-1 : Pow10(v) \in Epsilons}

Fired(trigger, inputs) == [trigger |-> trigger, inputs |-> inputs]

\* the first call: current_fig is None
DashLoad ==
  /\ current_fig = "None"
  /\ current_fig' = "figure"
  /\ is_disabled' = TRUE
  /\ fired' = Fired("interval-component", <<>>)
  /\ UNCHANGED <<simVars, ghostVars, calls, batchVars, export_text, threadVars>>

\* trigger_id == 'btn-run'
DashRun ==
  /\ current_fig # "None"
  /\ is_disabled' = ~is_disabled
  /\ fired' = Fired("btn-run", <<>>)
  /\ UNCHANGED <<current_fig, simVars, ghostVars, calls, batchVars, export_text, threadVars>>

\* trigger_id == 'btn-reset'
DashReset ==
  \E x0 \in DashInputs, y0 \in DashInputs, z0 \in DashInputs :
    /\ current_fig # "None"
    /\ Reset(1, <<Or(x0, X0_DEFAULT), Or(y0, 0), Or(z0, 0)>>)
    /\ is_disabled' = TRUE
    /\ fired' = Fired("btn-reset", <<x0, y0, z0>>)
    /\ UNCHANGED <<current_fig, calls, export_text, threadVars>>

\* trigger_id == 'btn-perturb'
DashPerturb ==
  \E v \in SliderValues :
    \E d \in uniform(Pow10(v)) \X uniform(Pow10(v)) \X uniform(Pow10(v)) :
      /\ current_fig # "None"
      /\ ~perturbed
      /\ Perturb(1, Pow10(v), d)
      /\ is_disabled' = FALSE
      /\ fired' = Fired("btn-perturb", <<v>>)
      /\ UNCHANGED <<current_fig, calls, export_text, threadVars>>

\* the interval fires: a step if the interval is not disabled
DashTick ==
  /\ current_fig # "None"
  /\ ~is_disabled
  /\ nsub[1] + TICK_STEPS <= MaxTicks * TICK_STEPS
  /\ Step(1, TICK_STEPS)
  /\ is_disabled' = FALSE
  /\ fired' = Fired("interval-component", <<>>)
  /\ UNCHANGED <<current_fig, calls, export_text, threadVars>>

\* the interval fires while the interval is disabled: dash.no_update
DashIdle ==
  /\ current_fig # "None"
  /\ is_disabled
  /\ fired' = Fired("interval-component", <<>>)
  /\ UNCHANGED <<is_disabled, current_fig, simVars, ghostVars, calls, batchVars, export_text, threadVars>>

InitDashboard ==
  /\ InitSim(Default, Default)
  /\ calls = [h \in Handles |-> <<>>]
  /\ NoBatch
  /\ InitPage
  /\ NoThreads

NextDash == DashLoad \/ DashRun \/ DashReset \/ DashPerturb \/ DashTick \/ DashIdle

SpecDash == InitDashboard /\ [][NextDash]_vars

----------------------------------------------------------------------------
(* src/lorenz_dash.py: the callbacks on the request threads of the server.   *)
(* app.run() serves every request on a thread of its own and the module has  *)
(* no lock, so the statements of two callbacks interleave.  A step of a      *)
(* thread is one statement that reads or writes the shared simulator, the    *)
(* globals export_status and export_thread, or a Thread object; the          *)
(* statements on locals before it belong to the same step.                   *)

MaxCallbacks == 2                    \* callbacks the server is asked to run

\* the server hands a new request to its first thread that runs no callback
Free(r) == req[r].pc = "idle" /\ \A q \in Requests : q < r => req[q].pc # "idle"

\* what the inputs hold when btn-reset is clicked
ClickedInputs == {<<Entered(Num(1)), Entered(Num(1)), Entered(Num(20))>>}
\* draws of the three np.random.uniform calls of one perturb()
ClickedDraws(epsilon) == {<<epsilon, -epsilon, 0>>, <<0, 0, 0>>}

STARTING == "Starting Render..."
RENDERING == "Rendering 3D Video... (See Console)"
IN_PROGRESS == "Export already in progress..."
\* what run_export_thread leaves in export_status
Outcomes == {"Export Complete: lorenz_dashboard_export.mp4", "Export Failed",
             "Error: ..."}

\* Thread.is_alive()
is_alive(w) == w.state \in {"started", "rendering"}

\* self.x, self.y, self.z or self.t of the simulator, by position
List(j) == <<x[1], y[1], z[1], t[1]>>[j]

SetList(j, v) ==
  /\ x' = [x EXCEPT ![1] = IF j = 1 THEN v ELSE @]
  /\ y' = [y EXCEPT ![1] = IF j = 2 THEN v ELSE @]
  /\ z' = [z EXCEPT ![1] = IF j = 3 THEN v ELSE @]
  /\ t' = [t EXCEPT ![1] = IF j = 4 THEN v ELSE @]

\* what no statement of a callback or of an export thread changes
fixedVars == <<sigma, rho, beta, dt, s0, nsub, negsteps, last, calls, batchVars,
               fired, current_fig>>

listVars == <<x, y, z, t>>
exportVars == <<workers, export_status, export_thread>>

\* the interval fires while it is not disabled: update_simulation reaches
\* simulator.step(steps=5).  Of the interval's requests one is in progress at
\* a time here; two overlapping ticks are left out.
TickBegin(r) ==
  /\ Free(r)
  /\ current_fig # "None" /\ ~is_disabled
  /\ \A q \in Requests : req[q].op # "step"
  /\ started < MaxCallbacks
  /\ req' = [req EXCEPT ![r] = [Idle EXCEPT !.op = "step",
                                  !.pc = "read", !.j = 1, !.left = TICK_STEPS]]
  /\ started' = started + 1
  /\ UNCHANGED <<fixedVars, export_text, listVars, exportVars, is_disabled, perturbed, points>>

\* current_x = self.x[-1], ..., current_t = self.t[-1], one statement each
StepRead(r) ==
  LET me == req[r]
      c == Append(me.cur, Last(List(me.j)))
  IN  /\ me.pc = "read"
      /\ req' = [req EXCEPT ![r] =
                   IF me.j < 4 THEN [me EXCEPT !.cur = c, !.j = @ + 1]
                   ELSE [me EXCEPT !.cur = c, !.j = 1,
                                   !.pc = IF me.left > 0 THEN "append" ELSE "check"]]
      /\ UNCHANGED <<fixedVars, export_text, listVars, exportVars, is_disabled, perturbed,
                     points, started>>

\* one pass of the loop: the RK4 step on the locals, then self.x.append(...),
\* self.y.append(...), self.z.append(...), self.t.append(...), one statement each
StepAppend(r) ==
  LET me == req[r]
      n == IF me.j = 1 THEN step_body(1, me.cur) ELSE me.cur
      left == IF me.j = 1 THEN me.left - 1 ELSE me.left
  IN  /\ me.pc = "append"
      /\ SetList(me.j, Append(List(me.j), n[me.j]))
      /\ points' = IF me.j = 1 THEN points \cup {<<n[1], n[2], n[3]>>} ELSE points
      /\ req' = [req EXCEPT ![r] =
                   IF me.j < 4 THEN [me EXCEPT !.cur = n, !.left = left, !.j = @ + 1]
                   ELSE [me EXCEPT !.j = 1,
                                   !.pc = IF left > 0 THEN "append" ELSE "check"]]
      /\ UNCHANGED <<fixedVars, export_text, exportVars, is_disabled, perturbed, started>>

\* if len(self.x) > max_points
StepCheck(r) ==
  LET me == req[r]
  IN  /\ me.pc = "check"
      /\ req' = [req EXCEPT ![r] =
                   [me EXCEPT !.pc = IF Len(x[1]) > max_points THEN "slice"
                                                                ELSE "return"]]
      /\ UNCHANGED <<fixedVars, export_text, listVars, exportVars, is_disabled, perturbed,
                     points, started>>

\* self.x = self.x[-max_points:], ..., self.t = self.t[-max_points:]
StepSlice(r) ==
  LET me == req[r]
  IN  /\ me.pc = "slice"
      /\ SetList(me.j, LastN(List(me.j), max_points))
      /\ req' = [req EXCEPT ![r] =
                   IF me.j < 4 THEN [me EXCEPT !.j = @ + 1]
                   ELSE [me EXCEPT !.j = 1, !.pc = "return"]]
      /\ UNCHANGED <<fixedVars, export_text, exportVars, is_disabled, perturbed, points, started>>

\* btn-reset is clicked: update_simulation reaches simulator.reset(...)
ResetBegin(r) ==
  \E in \in ClickedInputs :
    LET args == <<Or(in[1], X0_DEFAULT), Or(in[2], 0), Or(in[3], 0)>>
    IN  /\ Free(r)
        /\ current_fig # "None"
        /\ started < MaxCallbacks
        /\ req' = [req EXCEPT ![r] = [Idle EXCEPT !.op = "reset",
                                        !.pc = "assign", !.j = 1, !.args = args]]
        /\ points' = points \cup {args}
        /\ started' = started + 1
        /\ UNCHANGED <<fixedVars, export_text, listVars, exportVars, is_disabled, perturbed>>

\* self.x = [x0], self.y = [y0], self.z = [z0], self.t = [0], one statement each
ResetAssign(r) ==
  LET me == req[r]
  IN  /\ me.pc = "assign"
      /\ SetList(me.j, <<IF me.j = 4 THEN 0 ELSE me.args[me.j]>>)
      /\ req' = [req EXCEPT ![r] =
                   IF me.j < 4 THEN [me EXCEPT !.j = @ + 1]
                   ELSE [me EXCEPT !.j = 1, !.pc = "return"]]
      /\ UNCHANGED <<fixedVars, export_text, exportVars, is_disabled, perturbed, points, started>>

\* btn-perturb is clicked: update_simulation reaches simulator.perturb(epsilon)
PerturbBegin(r) ==
  \E v \in SliderValues : \E d \in ClickedDraws(Pow10(v)) :
    /\ Free(r)
    /\ current_fig # "None"
    /\ started < MaxCallbacks
    /\ req' = [req EXCEPT ![r] = [Idle EXCEPT !.op = "perturb",
                                    !.pc = "guard", !.d = d]]
    /\ started' = started + 1
    /\ UNCHANGED <<fixedVars, export_text, listVars, exportVars, is_disabled,
                   perturbed, points>>

\* if not self.x: return
PerturbGuard(r) ==
  LET me == req[r]
  IN  /\ me.pc = "guard"
      /\ req' = [req EXCEPT ![r] =
                   IF EmptyHistory(1) THEN [me EXCEPT !.pc = "return"]
                   ELSE [me EXCEPT !.pc = "offset", !.j = 1]]
      /\ UNCHANGED <<fixedVars, export_text, listVars, exportVars, is_disabled, perturbed,
                     points, started>>

\* x0 = self.x[-1] + dx, y0 = self.y[-1] + dy, z0 = self.z[-1] + dz
PerturbOffset(r) ==
  LET me == req[r]
      args == Append(me.args, Last(List(me.j)) + me.d[me.j])
  IN  /\ me.pc = "offset"
      /\ req' = [req EXCEPT ![r] =
                   IF me.j < 3 THEN [me EXCEPT !.args = args, !.j = @ + 1]
                   ELSE [me EXCEPT !.args = args, !.j = 1, !.pc = "assign"]]
      /\ points' = IF me.j < 3 THEN points ELSE points \cup {args}
      /\ UNCHANGED <<fixedVars, export_text, listVars, exportVars, is_disabled, perturbed, started>>

\* update_simulation returns the figure and the interval's `disabled`:
\* True after a reset, False after a perturb and after a step
Return(r) ==
  LET me == req[r]
  IN  /\ me.pc = "return"
      /\ is_disabled' = (me.op = "reset")
      /\ req' = [req EXCEPT ![r] = Idle]
      /\ UNCHANGED <<fixedVars, export_text, listVars, exportVars, perturbed, points, started>>

\* btn-export is clicked: handle_export up to the test of export_thread
ExportClick(r) ==
  /\ Free(r)
  /\ started < MaxCallbacks
  /\ IF export_thread # 0 /\ is_alive(workers[export_thread])
     THEN /\ export_text' = IN_PROGRESS
          /\ UNCHANGED req
     ELSE /\ req' = [req EXCEPT ![r] = [Idle EXCEPT !.op = "export",
                                                   !.pc = "copy", !.j = 1]]
          /\ UNCHANGED export_text
  /\ started' = started + 1
  /\ UNCHANGED <<fixedVars, listVars, exportVars, is_disabled, perturbed, points>>

\* x_data = list(simulator.x), y_data = list(simulator.y), z_data = list(simulator.z)
ExportCopy(r) ==
  LET me == req[r]
      data == Append(me.data, List(me.j))
  IN  /\ me.pc = "copy"
      /\ req' = [req EXCEPT ![r] =
                   IF me.j < 3 THEN [me EXCEPT !.data = data, !.j = @ + 1]
                   ELSE [me EXCEPT !.data = data, !.j = 0, !.pc = "create"]]
      /\ UNCHANGED <<fixedVars, export_text, listVars, exportVars, is_disabled, perturbed,
                     points, started>>

\* export_thread = threading.Thread(target=run_export_thread, args=(...))
ExportCreate(r) ==
  LET me == req[r]
  IN  /\ me.pc = "create"
      /\ workers' = Append(workers, [state |-> "new", args |-> me.data])
      /\ export_thread' = Len(workers) + 1
      /\ req' = [req EXCEPT ![r] = [me EXCEPT !.data = <<>>, !.pc = "start"]]
      /\ UNCHANGED <<fixedVars, export_text, listVars, export_status, is_disabled, perturbed,
                     points, started>>

\* export_thread.start(): the Thread object the global names now; start() of a
\* thread that was started already raises RuntimeError
ExportStart(r) ==
  LET me == req[r]
  IN  /\ me.pc = "start"
      /\ IF workers[export_thread].state = "new"
         THEN /\ workers' = [workers EXCEPT ![export_thread].state = "started"]
              /\ req' = [req EXCEPT ![r] = [me EXCEPT !.pc = "status"]]
         ELSE /\ req' = [req EXCEPT ![r] = Idle]
              /\ UNCHANGED workers
      /\ UNCHANGED <<fixedVars, export_text, listVars, export_status, export_thread, is_disabled,
                     perturbed, points, started>>

\* export_status = "Starting Render..."
ExportStatus(r) ==
  LET me == req[r]
  IN  /\ me.pc = "status"
      /\ export_status' = STARTING
      /\ req' = [req EXCEPT ![r] = [me EXCEPT !.pc = "report"]]
      /\ UNCHANGED <<fixedVars, export_text, listVars, workers, export_thread, is_disabled,
                     perturbed, points, started>>

\* return export_status, at the end of a click's call
ExportReport(r) ==
  /\ req[r].pc = "report"
  /\ req' = [req EXCEPT ![r] = Idle]
  /\ export_text' = export_status
  /\ UNCHANGED <<fixedVars, listVars, exportVars, is_disabled, perturbed,
                 points, started>>

\* export-interval fires: handle_export only returns export_status
ExportPoll(r) ==
  /\ Free(r)
  /\ export_text' = export_status
  /\ UNCHANGED <<fixedVars, listVars, exportVars, is_disabled, perturbed,
                 points, started, req>>

\* run_export_thread begins: export_status = "Rendering 3D Video... (See Console)"
WorkerRun(w) ==
  /\ workers[w].state = "started"
  /\ workers' = [workers EXCEPT ![w].state = "rendering"]
  /\ export_status' = RENDERING
  /\ UNCHANGED <<fixedVars, export_text, listVars, export_thread, is_disabled, perturbed,
                 points, started, req>>

\* render_video_from_data returns True or False, or raises; run_export_thread
\* stores the outcome and ends
WorkerFinish(w) ==
  \E outcome \in Outcomes :
    /\ workers[w].state = "rendering"
    /\ workers' = [workers EXCEPT ![w].state = "done"]
    /\ export_status' = outcome
    /\ UNCHANGED <<fixedVars, export_text, listVars, export_thread, is_disabled, perturbed,
                   points, started, req>>

\* the page is loaded and running
InitRunning ==
  /\ InitSim(Default, Default)
  /\ calls = [h \in Handles |-> <<>>]
  /\ NoBatch
  /\ RunningPage
  /\ InitThreads
  /\ points = {<<X0_DEFAULT, 0, 0>>}

NextThreads ==
  \/ \E r \in Requests :
       \/ TickBegin(r) \/ StepRead(r) \/ StepAppend(r) \/ StepCheck(r) \/ StepSlice(r)
       \/ ResetBegin(r) \/ ResetAssign(r)
       \/ PerturbBegin(r) \/ PerturbGuard(r) \/ PerturbOffset(r)
       \/ Return(r)
       \/ ExportClick(r) \/ ExportCopy(r) \/ ExportCreate(r) \/ ExportStart(r)
       \/ ExportStatus(r) \/ ExportReport(r) \/ ExportPoll(r)
  \/ \E w \in 1..Len(workers) : WorkerRun(w) \/ WorkerFinish(w)

SpecThreads == InitRunning /\ [][NextThreads]_vars

----------------------------------------------------------------------------
(* Properties *)

\* the retained trajectory of a handle as rows <<x, y, z>>, and with the times
Rows(h) == [i \in 1..Len(x[h]) |-> <<x[h][i], y[h][i], z[h][i]>>]
Lists(h) == <<x[h], y[h], z[h], t[h]>>

\* the lists a handle would hold after nsub sub-steps from its last reset
\* if step() discarded nothing
Full(h) ==
  step_loop(h, reset(s0[h][1], s0[h][2], s0[h][3]),
            <<s0[h][1], s0[h][2], s0[h][3], 0>>, nsub[h])

StandardParameters(h) == sigma[h] = SIGMA /\ rho[h] = RHO /\ beta[h] = BETA

Generators == {"lorenz_scene.generate_trajectory", "export_video.generate_trajectory",
               "lorenz_turbulence.simulate_lorenz"}
Derivatives == {"lorenz_scene.lorenz_derivatives", "export_video.lorenz_derivatives",
                "lorenz_dash._derivatives"}

\* the states a generator call returned, as rows, and the point it starts from
ReturnedRows(e) ==
  IF e.fn = "lorenz_scene.generate_trajectory" THEN e.result.value
  ELSE [i \in 1..Len(e.result.value[1]) |->
          <<e.result.value[1][i], e.result.value[2][i], e.result.value[3][i]>>]
StartOf(e) ==
  IF e.fn = "lorenz_scene.generate_trajectory" THEN e.arg
  ELSE IF e.fn = "export_video.generate_trajectory" THEN export_video_start
  ELSE simulate_start

\* C1: for every step count n >= 0 each batch generator returns n+1 states,
\* the first of them its initial condition.
C1_BatchLengthAndStart ==
  \A i \in 1..Len(batch) :
    (batch[i].fn \in Generators /\ batch[i].steps >= 0) =>
      /\ batch[i].result.outcome = "returned"
      /\ Len(ReturnedRows(batch[i])) = batch[i].steps + 1
      /\ ReturnedRows(batch[i])[1] = StartOf(batch[i])

\* C2: a handle reset to s0 and advanced by one step(steps = n), n + 1 within
\* the history bound, retains exactly the rows of
\* lorenz_scene.generate_trajectory(s0, dt, n).
C2_IncrementalEqualsBatch ==
  (/\ last.op = "step" /\ last.h = 1 /\ last.single
   /\ last.args[1] >= 0 /\ last.args[1] + 1 <= max_points
   /\ StandardParameters(1)) =>
    Rows(1) = generate_trajectory(s0[1], dt[1], last.args[1]).value

C2_Witness ==
  /\ last.op = "step" /\ last.h = 1 /\ last.single
  /\ last.args[1] = 2 /\ dt[1] > 0
  /\ Len(x[1]) = 3
  /\ x[1][2] # x[1][1] /\ x[1][3] # x[1][2]

\* C3: the four lists never hold more than max_points entries between calls;
\* once more than max_points sub-steps were made since the last reset they
\* hold exactly max_points, the last being the state and time of the most
\* recent sub-step.
C3_BoundedHistory ==
  /\ \A j \in 1..4 : Len(Lists(1)[j]) <= max_points
  /\ nsub[1] > max_points =>
       /\ \A j \in 1..4 : Len(Lists(1)[j]) = max_points
       /\ \A j \in 1..4 : Last(Lists(1)[j]) = Last(Full(1)[j])

C3_Witness ==
  /\ nsub[1] > max_points /\ last.op = "step" /\ ~last.single
  /\ dt[1] > 0
  /\ Len(x[1]) = max_points
  /\ x[1][max_points] # x[1][max_points - 1]

C5_ResetDiscardsHistory ==
  /\ last.op = "reset" =>
       Lists(last.h) = <<(<<last.args[1]>>), (<<last.args[2]>>), (<<last.args[3]>>), (<<0>>)>>
  /\ (/\ last.op = "step" /\ last.single
      /\ last.args[1] >= 1 /\ last.args[1] < max_points) =>
       /\ <<x[last.h][1], y[last.h][1], z[last.h][1], t[last.h][1]>>
            = <<s0[last.h][1], s0[last.h][2], s0[last.h][3], 0>>
       /\ <<x[last.h][2], y[last.h][2], z[last.h][2], t[last.h][2]>>
            = step_body(last.h, <<s0[last.h][1], s0[last.h][2], s0[last.h][3], 0>>)

C5_Witness ==
  /\ last.op = "reset" /\ last.h = 1
  /\ perturbed
  /\ last.args # Origin
  /\ x[1] = <<last.args[1]>>

\* C6: constructing a simulator, or generating a trajectory, with dt <= 0,
\* and step() or generate_trajectory with a step count below zero (step()
\* also with zero), each end in an error; none returns normally.
C6_InvalidConfigurationRejected ==
  /\ (last.op = "init" /\ last.args[1] <= 0) =>
       /\ last.outcome = "raised"
       /\ \A n \in 0..MaxBatchSteps :
            generate_trajectory(s0[1], last.args[1], n).outcome = "raised"
  /\ (last.op = "step" /\ last.args[1] <= 0) => last.outcome = "raised"
  /\ (last.op = "step" /\ last.args[1] < 0) =>
       generate_trajectory(s0[1], dt[1], last.args[1]).outcome = "raised"

\* C8: with the standard parameters one RK4 step from (0, 0, 0) gives
\* (0, 0, 0) for the handle's dt, so a handle reset to the origin retains only
\* the origin, and generate_trajectory from the origin returns only the origin.
C8_OriginIsFixedPoint ==
  (s0[1] = Origin /\ StandardParameters(1)) =>
    /\ rk4_step(Origin, dt[1]) = Origin
    /\ \A tt \in {0, Last(t[1])} :
         step_body(1, <<0, 0, 0, tt>>) = <<0, 0, 0, Fl(tt + dt[1])>>
    /\ \A i \in 1..Len(x[1]) : Rows(1)[i] = Origin
    /\ generate_trajectory(Origin, dt[1], nsub[1]).value
         = [i \in 1..(nsub[1] + 1) |-> Origin]

C8_Witness ==
  /\ s0[1] = Origin /\ StandardParameters(1)
  /\ dt[1] > 0
  /\ nsub[1] > max_points
  /\ last.op = "step"
  /\ Last(t[1]) > 0

\* C10: after a reset to s0 and step() calls with counts k_i >= 0 that sum
\* to n, the lists hold the last min(n + 1, max_points) entries of the
\* trajectory of n sub-steps from s0 that discards nothing.
C10_KeepMostRecent ==
  ~negsteps[1] =>
    Lists(1) = [j \in 1..4 |-> LastN(Full(1)[j], Min(nsub[1] + 1, max_points))]

C10_Witness ==
  /\ ~negsteps[1]
  /\ last.op = "step" /\ ~last.single /\ last.args[1] > 0
  /\ nsub[1] > max_points
  /\ dt[1] > 0
  /\ x[1][1] # x[1][2]
  /\ t[1][1] > 0

LorenzField(st) ==
  <<Mul(Num(10), st[2] - st[1]),
    Mul(st[1], Num(28) - st[3]) - st[2],
    Mul(st[1], st[2]) - Mul(Div(Num(8), Num(3)), st[3])>>

\* C9: each derivative function returns (sigma*(y-x), x*(rho-z)-y, x*y-beta*z)
\* and leaves its argument and the simulator as they were; the three
\* implementations return the same vector for the same state.
C9_DerivativeContract ==
  /\ \A i \in 1..Len(batch) :
       batch[i].fn \in Derivatives =>
         /\ batch[i].result = Returned(LorenzField(batch[i].arg))
         /\ batch[i].after = batch[i].arg
  /\ \A i, j \in 1..Len(batch) :
       (/\ batch[i].fn \in Derivatives /\ batch[j].fn \in Derivatives
        /\ batch[i].arg = batch[j].arg) =>
         batch[i].result = batch[j].result
  /\ \A h \in Handles :
       /\ Lists(h) = Default.lists
       /\ <<sigma[h], rho[h], beta[h], dt[h]>>
            = <<Default.sigma, Default.rho, Default.beta, Default.dt>>

C9_Witness ==
  /\ Len(batch) = 2
  /\ batch[1].fn = "lorenz_dash._derivatives"
  /\ batch[2].fn = "export_video.lorenz_derivatives"
  /\ batch[1].arg = <<-Num(3), Num(2), Num(30)>>
  /\ batch[2].arg = batch[1].arg
  /\ batch[2].result.value = <<Num(50), Num(4), -Num(86) - 10>>

\* the time stamp after n passes of the loop of step() from 0: dt added n times
RECURSIVE AccumulatedTime(_, _)
AccumulatedTime(d, n) == IF n <= 0 THEN 0 ELSE Fl(AccumulatedTime(d, n - 1) + d)

\* every retained entry but the first is one RK4 step of size dt after the
\* entry before it, in place and in time
ConsecutiveEntries(h) ==
  \A i \in 1..(Len(x[h]) - 1) :
    /\ Rows(h)[i + 1] = rk4_step(Rows(h)[i], dt[h])
    /\ t[h][i + 1] = Fl(t[h][i] + dt[h])

C13_ParametersFixed ==
  [][<<sigma, rho, beta, dt>>' = <<sigma, rho, beta, dt>>]_vars

C13_Witness ==
  /\ dt[1] = -DT_DEFAULT
  /\ StandardParameters(1)
  /\ perturbed
  /\ s0[1] \in InitialStates
  /\ last.op = "step" /\ nsub[1] > max_points

\* C17: after any reset, step (of any count, zero and negative included) and
\* perturb calls the four lists of a handle have one length, at least 1, so
\* that the guard `if not self.x` of perturb() does not fire, and their last
\* entries are the place and the time of one point: the latest point of the
\* trajectory since the last reset.
C17_HistoryNonEmptyAligned ==
  /\ Len(x[1]) >= 1
  /\ Len(y[1]) = Len(x[1]) /\ Len(z[1]) = Len(x[1]) /\ Len(t[1]) = Len(x[1])
  /\ ~EmptyHistory(1)
  /\ LastPoint(1) = [j \in 1..4 |-> Last(Full(1)[j])]

C17_Witness ==
  /\ negsteps[1]
  /\ perturbed
  /\ last.op = "step" /\ last.args[1] = 0
  /\ nsub[1] > max_points
  /\ Len(t[1]) = max_points

\* the number an input stands for: the number entered, or the default if the
\* input is empty
ValueOr(a, default) == IF a = None THEN default ELSE a[1]

\* C18: after the reset button fired with (x0, y0, z0) in the three inputs,
\* the simulator holds exactly the trajectory [(x0, y0, z0, 0)] and the
\* interval is disabled; 0.1, 0, 0 stand in only for an input that is None,
\* whatever number was entered, 0 included.
C18_ResetToEnteredCoordinates ==
  fired.trigger = "btn-reset" =>
    /\ Lists(1) = reset(ValueOr(fired.inputs[1], X0_DEFAULT),
                        ValueOr(fired.inputs[2], 0),
                        ValueOr(fired.inputs[3], 0))
    /\ is_disabled

\* a request thread is inside simulator.step, simulator.reset or
\* simulator.perturb: the call has begun and has not returned
InCall(r) ==
  req[r].pc \in {"read", "append", "check", "slice", "assign", "guard", "offset"}

\* C12: no two of step, reset and perturb are in progress on the shared
\* simulator at the same time, and every pass of step()'s loop starts from
\* the point the lists end with, not from a point that another call has
\* replaced in the meantime.
C12_MutationsSerialized ==
  /\ \A r, q \in Requests : (InCall(r) /\ InCall(q)) => r = q
  /\ \A r \in Requests :
       (req[r].pc = "append" /\ req[r].j = 1) => req[r].cur = LastPoint(1)

\* C14: the three lists handed to an export thread have one length and, index
\* by index, are the x, y and z of one point that a reset or a sub-step
\* produced.
C14_SnapshotConsistent ==
  \A w \in 1..Len(workers) :
    LET data == workers[w].args
    IN  /\ Len(data[2]) = Len(data[1]) /\ Len(data[3]) = Len(data[1])
        /\ \A i \in 1..Len(data[1]) :
             <<data[1][i], data[2][i], data[3][i]>> \in points

\* C15: at most one export thread is alive at any time.
C15_SingleExportThread ==
  Cardinality({w \in 1..Len(workers) : is_alive(workers[w])}) <= 1

\* C16: once the export thread that export_thread names has ended,
\* export_status is one of the outcomes, not "Starting Render..." and not
\* "Rendering 3D Video... (See Console)".
C16_OutcomeReported ==
  (export_thread # 0 /\ workers[export_thread].state = "done") =>
    export_status \in Outcomes

====
